---- MODULE Spec2Model ----
(***************************************************************************)
(* Model of the tennis prediction league tracker (src/app.py): the         *)
(* relational store (people, events, predictions, results), the request    *)
(* handlers that write it, and the scoring, ranking and breakdown          *)
(* computations that read it.                                              *)
(*                                                                         *)
(* Text is modelled as a sequence of one-character strings, so that        *)
(* str.strip(), str.upper(), the f-string that builds an event id and the  *)
(* ORDER BY comparisons are computed and not assumed.                      *)
(***************************************************************************)
EXTENDS Integers, Sequences, FiniteSets, TLC

VARIABLES people, events, predictions, results, writes, req, resp

vars == <<people, events, predictions, results, writes, req, resp>>

(***************************************************************************)
(* Bounds of the model.                                                    *)
(***************************************************************************)
\* accepted write requests per behaviour of the store specification
MaxWrites == 3
\* longest totals list handed to rank_with_ties in the ranking specification
MaxLen == 4

(***************************************************************************)
(* Text.                                                                   *)
(***************************************************************************)
\* the characters that occur in the model, in code point order
Alphabet ==
    << "\t", " ",
       "0", "1", "2", "3", "4", "5", "6", "7", "8", "9",
       "A", "B", "C", "D", "E", "F", "G", "H", "I", "J", "K", "L", "M",
       "N", "O", "P", "Q", "R", "S", "T", "U", "V", "W", "X", "Y", "Z",
       "a", "b", "c", "d", "e", "f", "g", "h", "i", "j", "k", "l", "m",
       "n", "o", "p", "q", "r", "s", "t", "u", "v", "w", "x", "y", "z" >>

\* the position of every character, tabulated once
Positions ==
    [c \in {Alphabet[i] : i \in 1..Len(Alphabet)} |->
        CHOOSE i \in 1..Len(Alphabet) : Alphabet[i] = c]

Ord(c) == Positions[c]

IsSpace(c) == c \in {" ", "\t"}

RECURSIVE lstrip(_)
lstrip(s) ==
    IF s = <<>> THEN <<>>
    ELSE IF IsSpace(Head(s)) THEN lstrip(Tail(s)) ELSE s

RECURSIVE rstrip(_)
rstrip(s) ==
    IF s = <<>> THEN <<>>
    ELSE IF IsSpace(s[Len(s)]) THEN rstrip(SubSeq(s, 1, Len(s) - 1)) ELSE s

\* str.strip()
strip(s) == rstrip(lstrip(s))

IsLower(c) == Ord(c) >= Ord("a") /\ Ord(c) <= Ord("z")

\* str.upper()
upper(s) ==
    [i \in 1..Len(s) |->
        IF IsLower(s[i]) THEN Alphabet[Ord(s[i]) - Ord("a") + Ord("A")] ELSE s[i]]

\* str(int) of a non-negative integer, as the f-string of init_db formats the year
RECURSIVE IntToStr(_)
IntToStr(n) ==
    IF n < 10 THEN <<Alphabet[Ord("0") + n]>>
    ELSE IntToStr(n \div 10) \o <<Alphabet[Ord("0") + (n % 10)]>>

\* strict lexicographic order on text (ORDER BY on a TEXT column)
RECURSIVE TextLess(_, _)
TextLess(a, b) ==
    IF b = <<>> THEN FALSE
    ELSE IF a = <<>> THEN TRUE
    ELSE IF Head(a) = Head(b) THEN TextLess(Tail(a), Tail(b))
    ELSE Ord(Head(a)) < Ord(Head(b))

\* SQL NULL and Python None, values that no text equals
NULL == <<"NULL">>
None == <<"None">>

(***************************************************************************)
(* League configuration.                                                   *)
(***************************************************************************)
EVENTS_ORDERED ==
    << << <<"A", "O">>,      "Australian Open", "slam"    >>,
       << <<"I", "W">>,      "Indian Wells",    "masters" >>,
       << <<"M", "I", "A">>, "Miami",           "masters" >>,
       << <<"M", "O", "N">>, "Monte Carlo",     "masters" >>,
       << <<"M", "A", "D">>, "Madrid",          "masters" >>,
       << <<"R", "O", "M">>, "Rome",            "masters" >>,
       << <<"R", "G">>,      "Roland Garros",   "slam"    >>,
       << <<"W", "I", "M">>, "Wimbledon",       "slam"    >>,
       << <<"C", "A", "N">>, "Canada",          "masters" >>,
       << <<"C", "I", "N">>, "Cincinnati",      "masters" >>,
       << <<"U", "S", "O">>, "US Open",         "slam"    >>,
       << <<"S", "H", "A">>, "Shanghai",        "masters" >>,
       << <<"P", "A", "R">>, "Paris",           "masters" >> >>

ALLOWED_ROUNDS ==
    << <<"W">>, <<"F">>, <<"S", "F">>, <<"Q", "F">>, <<"R", "1", "6">>,
       <<"R", "3", "2">>, <<"R", "6", "4">>, <<"R", "1", "2", "8">> >>

POINTS ==
    << << <<"W">>, 100 >>, << <<"F">>, 60 >>, << <<"S", "F">>, 40 >>,
       << <<"Q", "F">>, 25 >>, << <<"R", "1", "6">>, 15 >>,
       << <<"R", "3", "2">>, 8 >>, << <<"R", "6", "4">>, 4 >>,
       << <<"R", "1", "2", "8">>, 2 >> >>

LEAGUE_YEAR == 2026

\* the configured commissioner secret
COMMISSIONER_KEY == "s3cret"

(***************************************************************************)
(* Schema and seed.                                                        *)
(***************************************************************************)
\* event_id = f"{short_id}{LEAGUE_YEAR}"
EventId(short_id, year) == short_id \o IntToStr(year)

\* the rows init_db upserts for one league year
SeedRows(year) ==
    {[id         |-> EventId(EVENTS_ORDERED[idx][1], year),
      short_id   |-> EVENTS_ORDERED[idx][1],
      name       |-> EVENTS_ORDERED[idx][2],
      level      |-> EVENTS_ORDERED[idx][3],
      sort_order |-> idx,
      year       |-> year] : idx \in 1..Len(EVENTS_ORDERED)}

\* INSERT INTO events ... ON CONFLICT (id) DO UPDATE, for every seed row
init_db(table, year) ==
    {e \in table : \A s \in SeedRows(year) : s.id # e.id} \cup SeedRows(year)

\* FOREIGN KEY (event_id) REFERENCES events(id)
EventExists(event_id) == \E e \in events : e.id = event_id

\* SELECT name FROM people ORDER BY name
RECURSIVE SortNames(_)
SortNames(S) ==
    IF S = {} THEN <<>>
    ELSE LET first == CHOOSE x \in S : \A y \in S : ~TextLess(y, x)
         IN  <<first>> \o SortNames(S \ {first})

get_people == SortNames(people)

\* SELECT id, short_id, name, level FROM events WHERE year=:y ORDER BY id
RECURSIVE SortEvents(_)
SortEvents(S) ==
    IF S = {} THEN <<>>
    ELSE LET first == CHOOSE x \in S : \A y \in S : ~TextLess(y.id, x.id)
         IN  <<[id |-> first.id, short_id |-> first.short_id,
                name |-> first.name, level |-> first.level]>>
                 \o SortEvents(S \ {first})

get_events == SortEvents({e \in events : e.year = LEAGUE_YEAR})

(***************************************************************************)
(* Scoring: points_case_sql and calc_totals.                               *)
(***************************************************************************)
\* a round that is not in the table, or no round at all, scores as a
\* quarter-final instead of 0
points_case_sql_default_qf(round_reached) ==
    IF \E i \in 1..Len(POINTS) : POINTS[i][1] = round_reached
    THEN POINTS[CHOOSE i \in 1..Len(POINTS) : POINTS[i][1] = round_reached][2]
    ELSE 25

\* CASE r.round_reached WHEN '<rnd>' THEN <pts> ... ELSE 0 END; a NULL round
\* (no result row joined) matches no WHEN and takes the ELSE branch
points_case_sql(round_reached) ==
    IF \E i \in 1..Len(POINTS) : POINTS[i][1] = round_reached
    THEN POINTS[CHOOSE i \in 1..Len(POINTS) : POINTS[i][1] = round_reached][2]
    ELSE 0

\* results joined on the player name alone, whatever the event
ResultJoinPlayerOnly(p, r) == r.player_name = p.player_name

\* the ON condition of LEFT JOIN results r
ResultJoin(p, r) ==
    /\ r.event_id = p.event_id
    /\ r.player_name = p.player_name

\* predictions p JOIN events e ON e.id = p.event_id
\* LEFT JOIN results r ON ... WHERE e.year = :year, over the given tables
JoinedRows(prediction_rows, event_rows, result_rows) ==
    UNION {
        LET matched == {r \in result_rows : ResultJoin(p, r)}
            row(e, r_event_id, round_reached) ==
                [event_id      |-> e.id,
                 short_id      |-> e.short_id,
                 name          |-> e.name,
                 sort_order    |-> e.sort_order,
                 person_name   |-> p.person_name,
                 player_name   |-> p.player_name,
                 r_event_id    |-> r_event_id,
                 round_reached |-> round_reached]
        IN  UNION {
                IF matched = {} THEN {row(e, NULL, NULL)}
                ELSE {row(e, r.event_id, r.round_reached) : r \in matched}
                : e \in {x \in event_rows :
                             x.id = p.event_id /\ x.year = LEAGUE_YEAR} }
        : p \in prediction_rows }

\* SUM(<case expression>) over a group of joined rows
RECURSIVE SumPoints(_)
SumPoints(rows) ==
    IF rows = {} THEN 0
    ELSE LET row == CHOOSE x \in rows : TRUE
         IN  points_case_sql(row.round_reached) + SumPoints(rows \ {row})

\* ORDER BY total DESC, person ASC
TotalsBefore(a, b) ==
    \/ a[2] > b[2]
    \/ a[2] = b[2] /\ TextLess(a[1], b[1])

RECURSIVE SortTotals(_)
SortTotals(S) ==
    IF S = {} THEN <<>>
    ELSE LET first == CHOOSE x \in S : \A y \in S : ~TotalsBefore(y, x)
         IN  <<first>> \o SortTotals(S \ {first})

\* the query of calc_totals over the given tables: GROUP BY p.person_name
TotalsQuery(prediction_rows, event_rows, result_rows) ==
    LET rows == JoinedRows(prediction_rows, event_rows, result_rows)
    IN  SortTotals({ <<person, SumPoints({row \in rows : row.person_name = person})>>
                     : person \in {row.person_name : row \in rows} })

calc_totals == TotalsQuery(predictions, events, results)

(***************************************************************************)
(* Ranking: rank_with_ties.                                                *)
(***************************************************************************)
\* dense ranking: a new total takes the next rank instead of its position
CurrentRankDense(prev_total, total, rank, seen) ==
    IF prev_total = <<>> \/ <<total>> # prev_total THEN rank + 1 ELSE rank

\* the displayed rank after reading one entry; prev_total is <<>> for None
CurrentRank(prev_total, total, rank, seen) ==
    IF prev_total = <<>> \/ <<total>> # prev_total THEN seen ELSE rank

\* medals handed out by position only for the first and second rank
MedalShifted(rank) ==
    CASE rank = 1 -> "gold"
      [] rank = 2 -> "silver"
      [] rank = 3 -> "silver"
      [] OTHER    -> ""

\* the medal markers: gold, silver and bronze medal emoji, or the empty string
Medal(rank) ==
    CASE rank = 1 -> "gold"
      [] rank = 2 -> "silver"
      [] rank = 3 -> "bronze"
      [] OTHER    -> ""

\* the for loop of rank_with_ties from entry `seen` on
RECURSIVE RankLoop(_, _, _, _, _)
RankLoop(totals, seen, prev_total, rank, ranked) ==
    IF seen > Len(totals) THEN ranked
    ELSE LET person   == totals[seen][1]
             total    == totals[seen][2]
             new_rank == CurrentRank(prev_total, total, rank, seen)
             new_prev == IF prev_total = <<>> \/ <<total>> # prev_total
                         THEN <<total>> ELSE prev_total
         IN  RankLoop(totals, seen + 1, new_prev, new_rank,
                      Append(ranked, [person |-> person,
                                      total  |-> total,
                                      rank   |-> new_rank,
                                      medal  |-> Medal(new_rank)]))

rank_with_ties(totals) == RankLoop(totals, 1, <<>>, 0, <<>>)

(***************************************************************************)
(* Breakdown: calc_event_breakdown.                                        *)
(***************************************************************************)
\* rows ordered by the event id instead of the seeded display order
BreakdownBeforeById(a, b) ==
    \/ TextLess(a.event_id, b.event_id)
    \/ a.event_id = b.event_id /\ TextLess(a.person_name, b.person_name)

\* ORDER BY e.sort_order ASC, p.person_name
BreakdownBefore(a, b) ==
    \/ a.sort_order < b.sort_order
    \/ a.sort_order = b.sort_order /\ TextLess(a.person_name, b.person_name)

RECURSIVE SortBreakdown(_)
SortBreakdown(S) ==
    IF S = {} THEN <<>>
    ELSE LET first == CHOOSE x \in S : \A y \in S : ~BreakdownBefore(y, x)
         IN  <<first>> \o SortBreakdown(S \ {first})

\* stands for the em dash shown when no round is recorded
NoRound == <<"-">>

\* one display row of an event block
BreakdownRow(row) ==
    LET rnd == IF row.round_reached = NULL THEN <<>> ELSE row.round_reached
    IN  [person |-> row.person_name,
         player |-> row.player_name,
         round  |-> IF rnd = <<>> THEN NoRound ELSE rnd,
         points |-> points_case_sql(row.round_reached)]

\* events.setdefault(event_id, {...}) followed by the append to its rows; the
\* blocks are kept in insertion order, as the dict keeps them
RECURSIVE GroupRows(_, _)
GroupRows(rows, blocks) ==
    IF rows = <<>> THEN blocks
    ELSE LET row   == Head(rows)
             known == \E i \in 1..Len(blocks) : blocks[i].event_id = row.event_id
             base  == IF known THEN blocks
                      ELSE Append(blocks, [event_id |-> row.event_id,
                                           short_id |-> row.short_id,
                                           name     |-> row.name,
                                           rows     |-> <<>>])
         IN  GroupRows(Tail(rows),
                       [i \in 1..Len(base) |->
                           IF base[i].event_id = row.event_id
                           THEN [base[i] EXCEPT !.rows = Append(@, BreakdownRow(row))]
                           ELSE base[i]])

calc_event_breakdown ==
    GroupRows(SortBreakdown(JoinedRows(predictions, events, results)), <<>>)

(***************************************************************************)
(* Request inputs of the model.                                            *)
(***************************************************************************)
Al == <<"A", "l">>
Bo == <<"B", "o">>
Ca == <<"C", "a">>
PlayerX == <<"X">>
PlayerY == <<"Y">>
RG == <<"R", "G">>
CAN == <<"C", "A", "N">>

\* requests sent to a fresh deployment: padded, blank and invalid fields
PersonInputs == { <<" ">>, Al, <<" ">> \o Bo }
EventInputs == { <<>>, EventId(RG, LEAGUE_YEAR), EventId(CAN, LEAGUE_YEAR) \o <<" ">> }
PlayerInputs == { <<"\t">>, PlayerX, PlayerY }
RoundInputs == { <<"F">>, <<"r", "1", "2", "8", " ">>, <<"Q", "R">> }
KeyInputs == { COMMISSIONER_KEY, "guess" }
FilterInputs == { None, <<>>, EventId(RG, LEAGUE_YEAR), EventId(CAN, LEAGUE_YEAR) }

\* requests sent to a deployment whose database served the year before too:
\* events of both years, and one of a year that was never seeded
ArchivePersons == { Al, Bo }
ArchiveEvents ==
    { EventId(RG, LEAGUE_YEAR), EventId(CAN, LEAGUE_YEAR),
      EventId(RG, LEAGUE_YEAR - 1), EventId(RG, LEAGUE_YEAR + 1) }
ArchivePlayers == { PlayerX, PlayerY }
ArchiveRounds == { <<"F">>, <<"R", "1", "2", "8">> }
ArchiveKeys == { COMMISSIONER_KEY }
ArchiveFilters == { None, EventId(RG, LEAGUE_YEAR), EventId(RG, LEAGUE_YEAR - 1) }

RankPersons == { Al, Bo, Ca }
RankTotals == { 0, 60, 80 }
TotalsInputs(len) == [1..len -> RankPersons \X RankTotals]

(***************************************************************************)
(* Request handlers.                                                       *)
(***************************************************************************)
\* a raised HTTPException, or a statement the database refuses: the
\* transaction of engine.begin() is rolled back and nothing is written
Rejected(status) ==
    /\ resp' = [status |-> status, body |-> <<>>]
    /\ UNCHANGED <<people, events, predictions, results, writes>>

Redirect == [status |-> 303, body |-> <<>>]

\* no request is being served: every handler is synchronous and runs in one
\* transaction, so between two requests nothing is in flight
Idle == [op |-> "idle"]
NoResponse == [status |-> 0, body |-> <<>>]

\* INSERT INTO people(name) ... ON CONFLICT (name) DO NOTHING
InsertPerson(table, name) == table \cup {name}

\* a plain INSERT into a table without its primary key
InsertPredictionNoConflict(table, event_id, person_name, player_name) ==
    table \cup {[event_id    |-> event_id,
                 person_name |-> person_name,
                 player_name |-> player_name]}

\* INSERT INTO predictions ... ON CONFLICT (event_id, person_name) DO UPDATE
UpsertPrediction(table, event_id, person_name, player_name) ==
    {row \in table : ~(row.event_id = event_id /\ row.person_name = person_name)}
        \cup {[event_id    |-> event_id,
               person_name |-> person_name,
               player_name |-> player_name]}

\* INSERT INTO results ... ON CONFLICT (event_id, player_name) DO UPDATE
UpsertResult(table, event_id, player_name, round_reached) ==
    {row \in table : ~(row.event_id = event_id /\ row.player_name = player_name)}
        \cup {[event_id      |-> event_id,
               player_name   |-> player_name,
               round_reached |-> round_reached]}

\* every key is taken for the commissioner's
AuthorizedAlways(commissioner_key) == TRUE

\* if commissioner_key != COMMISSIONER_KEY: raise HTTPException(403, ...)
Authorized(commissioner_key) == commissioner_key = COMMISSIONER_KEY

\* every round label is taken as allowed
RoundAllowedAlways(round_reached) == TRUE

\* round_reached in ALLOWED_ROUNDS
RoundAllowed(round_reached) ==
    \E i \in 1..Len(ALLOWED_ROUNDS) : ALLOWED_ROUNDS[i] = round_reached

add_person(name) ==
    LET n == strip(name)
    IN  /\ req = Idle
        /\ req' = [op |-> "add_person", name |-> name]
        /\ IF n = <<>> THEN Rejected(400)
           ELSE /\ writes < MaxWrites
                /\ people' = InsertPerson(people, n)
                /\ writes' = writes + 1
                /\ resp' = Redirect
                /\ UNCHANGED <<events, predictions, results>>

submit_pick(person, event_id, player) ==
    LET p  == strip(person)
        e  == strip(event_id)
        pl == strip(player)
    IN  /\ req = Idle
        /\ req' = [op |-> "submit_pick", person |-> person,
                   event_id |-> event_id, player |-> player]
        /\ IF ~(p # <<>> /\ e # <<>> /\ pl # <<>>) THEN Rejected(400)
           ELSE IF ~EventExists(e) THEN Rejected(500)
           ELSE /\ writes < MaxWrites
                /\ people' = InsertPerson(people, p)
                /\ predictions' = UpsertPrediction(predictions, e, p, pl)
                /\ writes' = writes + 1
                /\ resp' = Redirect
                /\ UNCHANGED <<events, results>>

submit_result(commissioner_key, event_id, player, round_reached) ==
    LET e  == strip(event_id)
        pl == strip(player)
        r  == upper(strip(round_reached))
    IN  /\ req = Idle
        /\ req' = [op |-> "submit_result", commissioner_key |-> commissioner_key,
                   event_id |-> event_id, player |-> player,
                   round_reached |-> round_reached]
        /\ IF ~Authorized(commissioner_key) THEN Rejected(403)
           ELSE IF ~RoundAllowed(r) THEN Rejected(400)
           ELSE IF ~EventExists(e) THEN Rejected(500)
           ELSE /\ writes < MaxWrites
                /\ results' = UpsertResult(results, e, pl, r)
                /\ writes' = writes + 1
                /\ resp' = Redirect
                /\ UNCHANGED <<people, events, predictions>>

home ==
    /\ req = Idle
    /\ req' = [op |-> "home"]
    /\ resp' = [status |-> 200,
                body   |-> [people |-> get_people,
                            events |-> get_events,
                            totals |-> rank_with_ties(calc_totals)]]
    /\ UNCHANGED <<people, events, predictions, results, writes>>

breakdown_page(event_id) ==
    LET breakdown == calc_event_breakdown
    IN  /\ req = Idle
        /\ req' = [op |-> "breakdown_page", event_id |-> event_id]
        /\ resp' = [status |-> 200,
                    body   |-> [events            |-> get_events,
                                selected_event_id |-> IF event_id = None
                                                      THEN <<>> ELSE event_id,
                                breakdown         |->
                                    IF event_id # None /\ event_id # <<>>
                                    THEN SelectSeq(breakdown,
                                             LAMBDA ev : ev.event_id = event_id)
                                    ELSE breakdown]]
        /\ UNCHANGED <<people, events, predictions, results, writes>>

(***************************************************************************)
(* The store specification: the database after startup, then any requests. *)
(***************************************************************************)
Init ==
    /\ people = {}
    /\ events = init_db({}, LEAGUE_YEAR)
    /\ predictions = {}
    /\ results = {}
    /\ writes = 0
    /\ req = Idle
    /\ resp = NoResponse

AddPerson(names) == \E name \in names : add_person(name)

SubmitPick(persons, event_ids, players) ==
    \E person \in persons, event_id \in event_ids, player \in players :
        submit_pick(person, event_id, player)

SubmitResult(keys, event_ids, players, rounds) ==
    \E key \in keys, event_id \in event_ids,
       player \in players, round_reached \in rounds :
        submit_result(key, event_id, player, round_reached)

Home == home

BreakdownPage(filters) == \E event_id \in filters : breakdown_page(event_id)

\* the response has gone out to the caller and the next request can be served
ResponseSent ==
    /\ req # Idle
    /\ req' = Idle
    /\ resp' = NoResponse
    /\ UNCHANGED <<people, events, predictions, results, writes>>

Next ==
    \/ AddPerson(PersonInputs)
    \/ SubmitPick(PersonInputs, EventInputs, PlayerInputs)
    \/ SubmitResult(KeyInputs, EventInputs, PlayerInputs, RoundInputs)
    \/ Home
    \/ BreakdownPage(FilterInputs)
    \/ ResponseSent

Spec == Init /\ [][Next]_vars

(***************************************************************************)
(* The archive specification: the same handlers on a database that was     *)
(* seeded for the year before and then for the league year.                *)
(***************************************************************************)
InitArchive ==
    /\ people = {}
    /\ events = init_db(init_db({}, LEAGUE_YEAR - 1), LEAGUE_YEAR)
    /\ predictions = {}
    /\ results = {}
    /\ writes = 0
    /\ req = Idle
    /\ resp = NoResponse

NextArchive ==
    \/ AddPerson(ArchivePersons)
    \/ SubmitPick(ArchivePersons, ArchiveEvents, ArchivePlayers)
    \/ SubmitResult(ArchiveKeys, ArchiveEvents, ArchivePlayers, ArchiveRounds)
    \/ Home
    \/ BreakdownPage(ArchiveFilters)
    \/ ResponseSent

SpecArchive == InitArchive /\ [][NextArchive]_vars

(***************************************************************************)
(* The ranking specification: rank_with_ties applied to any totals list.   *)
(***************************************************************************)
InitRank ==
    /\ people = {}
    /\ events = init_db({}, LEAGUE_YEAR)
    /\ predictions = {}
    /\ results = {}
    /\ writes = 0
    /\ \E len \in 0..MaxLen : \E totals \in TotalsInputs(len) :
          req = [op |-> "rank_with_ties", totals |-> totals]
    /\ resp = NoResponse

RankCall ==
    /\ req.op = "rank_with_ties"
    /\ resp = NoResponse
    /\ resp' = [status |-> 200, body |-> rank_with_ties(req.totals)]
    /\ UNCHANGED <<people, events, predictions, results, writes, req>>

NextRank == RankCall

SpecRank == InitRank /\ [][NextRank]_vars

(***************************************************************************)
(* Properties of the ranking engine, checked under SpecRank.               *)
(***************************************************************************)
\* sorted descending by total, ties by name ascending
SortedTotals(totals) ==
    \A i \in 1..(Len(totals) - 1) : ~TotalsBefore(totals[i + 1], totals[i])

\* 1-based position of the first entry that has the same total as entry i
FirstWithTotal(totals, i) ==
    CHOOSE j \in 1..i :
        /\ totals[j][2] = totals[i][2]
        /\ \A k \in 1..(j - 1) : totals[k][2] # totals[i][2]

Returned == req.op = "rank_with_ties" /\ resp.status = 200

\* C1: for a totals list sorted descending by total (ties by name ascending),
\* rank_with_ties returns as many entries as it was given, in the same person
\* order, each with the rank of the first entry that has the same total.
C1_CompetitionRank ==
    (Returned /\ SortedTotals(req.totals)) =>
        /\ Len(resp.body) = Len(req.totals)
        /\ \A i \in 1..Len(req.totals) :
              /\ resp.body[i].person = req.totals[i][1]
              /\ resp.body[i].total = req.totals[i][2]
              /\ resp.body[i].rank = FirstWithTotal(req.totals, i)

\* a sorted list of four whose first two entries tie: ranks 1, 1, 3, 4
C1_Witness ==
    /\ Returned
    /\ SortedTotals(req.totals)
    /\ Len(req.totals) = 4
    /\ req.totals[1][2] = req.totals[2][2]
    /\ req.totals[2][2] > req.totals[3][2]
    /\ req.totals[3][2] > req.totals[4][2]
    /\ [i \in 1..4 |-> resp.body[i].rank] = <<1, 1, 3, 4>>

\* C9: the medal of a ranked entry depends on its rank alone (1 gold, 2 silver,
\* 3 bronze, otherwise none); when exactly the first two entries tie for first,
\* the third entry has rank 3 and bronze and nobody gets silver.
C9_MedalByRank ==
    Returned =>
        /\ \A i \in 1..Len(resp.body) :
              /\ resp.body[i].rank = 1 => resp.body[i].medal = "gold"
              /\ resp.body[i].rank = 2 => resp.body[i].medal = "silver"
              /\ resp.body[i].rank = 3 => resp.body[i].medal = "bronze"
              /\ resp.body[i].rank \notin {1, 2, 3} => resp.body[i].medal = ""
        /\ ( /\ Len(req.totals) >= 3
             /\ req.totals[1][2] = req.totals[2][2]
             /\ req.totals[3][2] < req.totals[2][2] ) =>
                /\ resp.body[1].medal = "gold"
                /\ resp.body[2].medal = "gold"
                /\ resp.body[3].rank = 3
                /\ resp.body[3].medal = "bronze"
                /\ \A i \in 1..Len(resp.body) : resp.body[i].medal # "silver"

\* Alice and Bob on 80, Carol on 60: gold, gold, bronze
C9_Witness ==
    /\ Returned
    /\ req.totals = << <<Al, 80>>, <<Bo, 80>>, <<Ca, 60>> >>
    /\ [i \in 1..3 |-> resp.body[i].rank] = <<1, 1, 3>>
    /\ [i \in 1..3 |-> resp.body[i].medal] = <<"gold", "gold", "bronze">>

(***************************************************************************)
(* Properties of the store and the scoring engine.                         *)
(***************************************************************************)
Accepted(op) == req.op = op /\ resp.status = 303

\* the predictions for events of the league year
YearPredictions ==
    {p \in predictions :
        \E e \in events : e.id = p.event_id /\ e.year = LEAGUE_YEAR}

\* the round recorded in results for (event, player), NULL when there is none
RecordedRound(event_id, player_name) ==
    IF \E r \in results : r.event_id = event_id /\ r.player_name = player_name
    THEN (CHOOSE r \in results :
             r.event_id = event_id /\ r.player_name = player_name).round_reached
    ELSE NULL

\* the round to points table as the specification states it
StatedPoints(round_reached) ==
    CASE round_reached = <<"W">>                -> 100
      [] round_reached = <<"F">>                -> 60
      [] round_reached = <<"S", "F">>           -> 40
      [] round_reached = <<"Q", "F">>           -> 25
      [] round_reached = <<"R", "1", "6">>      -> 15
      [] round_reached = <<"R", "3", "2">>      -> 8
      [] round_reached = <<"R", "6", "4">>      -> 4
      [] round_reached = <<"R", "1", "2", "8">> -> 2
      [] OTHER                                  -> 0

RECURSIVE StatedSum(_)
StatedSum(picks) ==
    IF picks = {} THEN 0
    ELSE LET p == CHOOSE x \in picks : TRUE
         IN  StatedPoints(RecordedRound(p.event_id, p.player_name))
                 + StatedSum(picks \ {p})

StatedTotal(person) == StatedSum({p \in YearPredictions : p.person_name = person})

\* C2: every person of the people table is listed by calc_totals, with total 0
\* when the person has no prediction in the league year, and so every person
\* the home page lists is in its ranked totals.
C2_EveryPersonInTotals ==
    /\ \A person \in people :
          \E i \in 1..Len(calc_totals) :
              /\ calc_totals[i][1] = person
              /\ (\A p \in YearPredictions : p.person_name # person)
                     => calc_totals[i][2] = 0
    /\ (req.op = "home" /\ resp.status = 200) =>
          \A k \in 1..Len(resp.body.people) :
              \E i \in 1..Len(resp.body.totals) :
                  resp.body.totals[i].person = resp.body.people[k]

\* a request field that is empty or only whitespace
Blank(field) == strip(field) = <<>>

\* C3: a request with a blank person name, event id or player name is rejected
\* and leaves the people, predictions and results tables as they were.
C3_BlankFieldsRejected ==
    [][ ( \/ req'.op = "add_person" /\ Blank(req'.name)
          \/ /\ req'.op = "submit_pick"
             /\ (Blank(req'.person) \/ Blank(req'.event_id) \/ Blank(req'.player))
          \/ /\ req'.op = "submit_result"
             /\ (Blank(req'.event_id) \/ Blank(req'.player)) )
        => ( /\ resp'.status # 303
             /\ UNCHANGED <<people, predictions, results>> ) ]_vars

\* C4: the total calc_totals reports for a person is the sum, over the person's
\* predictions for events of the league year, of the stated points of the round
\* recorded for the same event and predicted player, 0 where none is recorded;
\* a round outside the table scores 0 and every allowed round its stated points.
C4_TotalIsSumOfPoints ==
    /\ \A i \in 1..Len(calc_totals) :
          calc_totals[i][2] = StatedTotal(calc_totals[i][1])
    /\ \A label \in {NULL, <<>>, <<"Q", "R">>, <<"f">>} : points_case_sql(label) = 0
    /\ \A i \in 1..Len(ALLOWED_ROUNDS) :
          points_case_sql(ALLOWED_ROUNDS[i]) = StatedPoints(ALLOWED_ROUNDS[i])

\* Al picked X for Roland Garros, X is recorded with the final, and Al also has
\* a pick for an event of the year before: Al's total is 60
C4_Witness ==
    /\ [event_id    |-> EventId(RG, LEAGUE_YEAR),
        person_name |-> Al,
        player_name |-> PlayerX] \in predictions
    /\ [event_id      |-> EventId(RG, LEAGUE_YEAR),
        player_name   |-> PlayerX,
        round_reached |-> <<"F">>] \in results
    /\ \E p \in predictions :
          p.person_name = Al /\ p.event_id = EventId(RG, LEAGUE_YEAR - 1)
    /\ calc_totals = << <<Al, 60>> >>

SameKeyPrediction(a, b) == a.event_id = b.event_id /\ a.person_name = b.person_name
SameKeyResult(a, b) == a.event_id = b.event_id /\ a.player_name = b.player_name

\* C5: every step leaves at most one prediction row per (event, person) and one
\* result row per (event, player); after an accepted pick or result the one row
\* of its key holds the submitted value; and a result row stays as it is until
\* an accepted result for its key overwrites it.
C5_OneRowPerKey ==
    [][ /\ \A a, b \in predictions' : SameKeyPrediction(a, b) => a = b
        /\ \A a, b \in results' : SameKeyResult(a, b) => a = b
        /\ (req'.op = "submit_pick" /\ resp'.status = 303) =>
              {p \in predictions' : /\ p.event_id = strip(req'.event_id)
                                    /\ p.person_name = strip(req'.person)}
                  = {[event_id    |-> strip(req'.event_id),
                      person_name |-> strip(req'.person),
                      player_name |-> strip(req'.player)]}
        /\ (req'.op = "submit_result" /\ resp'.status = 303) =>
              {r \in results' : /\ r.event_id = strip(req'.event_id)
                                /\ r.player_name = strip(req'.player)}
                  = {[event_id      |-> strip(req'.event_id),
                      player_name   |-> strip(req'.player),
                      round_reached |-> upper(strip(req'.round_reached))]}
        /\ \A r \in results :
              \/ r \in results'
              \/ /\ req'.op = "submit_result" /\ resp'.status = 303
                 /\ r.event_id = strip(req'.event_id)
                 /\ r.player_name = strip(req'.player)
        /\ \A p \in predictions :
              \/ p \in predictions'
              \/ /\ req'.op = "submit_pick" /\ resp'.status = 303
                 /\ p.event_id = strip(req'.event_id)
                 /\ p.person_name = strip(req'.person) ]_vars

\* two accepted results, nothing else written, and one result row: the second
\* submission was for the key of the first, and the row holds its round
C5_Witness ==
    /\ Accepted("submit_result")
    /\ writes = 2
    /\ people = {}
    /\ predictions = {}
    /\ results = {[event_id      |-> strip(req.event_id),
                   player_name   |-> strip(req.player),
                   round_reached |-> upper(strip(req.round_reached))]}

\* C6: a result submission with a key other than the configured commissioner
\* key is answered 403 and writes nothing: the tables and the totals stay.
C6_WrongKeyRejected ==
    [][ (req'.op = "submit_result" /\ req'.commissioner_key # COMMISSIONER_KEY)
        => ( /\ resp'.status = 403
             /\ UNCHANGED <<people, predictions, results>>
             /\ TotalsQuery(predictions', events', results') = calc_totals ) ]_vars

\* a wrong key on a submission that is valid otherwise, with results recorded
C6_Witness ==
    /\ req.op = "submit_result"
    /\ req.commissioner_key # COMMISSIONER_KEY
    /\ resp.status = 403
    /\ EventExists(strip(req.event_id))
    /\ ~Blank(req.player)
    /\ upper(strip(req.round_reached)) = <<"F">>
    /\ results # {}
    /\ \E i \in 1..Len(calc_totals) : calc_totals[i][2] > 0

\* the allowed round labels as the specification states them
StatedRounds ==
    { <<"W">>, <<"F">>, <<"S", "F">>, <<"Q", "F">>, <<"R", "1", "6">>,
      <<"R", "3", "2">>, <<"R", "6", "4">>, <<"R", "1", "2", "8">> }

\* C7 as stated: a result submission whose round label is not one of the
\* allowed labels is rejected, and the results table and the totals stay.
C7_LabelOutsideSetRejected ==
    [][ (req'.op = "submit_result" /\ req'.round_reached \notin StatedRounds)
        => ( /\ resp'.status # 303
             /\ results' = results
             /\ TotalsQuery(predictions', events', results') = calc_totals ) ]_vars

\* C7 as amended: a result submission whose round label, once stripped of
\* surrounding whitespace and upper-cased, is not one of the allowed labels is
\* rejected, and the results table and the totals stay.
C7_NormalisedLabelRejected ==
    [][ ( /\ req'.op = "submit_result"
          /\ upper(strip(req'.round_reached)) \notin StatedRounds )
        => ( /\ resp'.status # 303
             /\ results' = results
             /\ TotalsQuery(predictions', events', results') = calc_totals ) ]_vars

\* the commissioner submits round "QR" for a known event and player while a
\* result is already scored: answered 400
C7_Witness ==
    /\ req.op = "submit_result"
    /\ req.commissioner_key = COMMISSIONER_KEY
    /\ req.round_reached = <<"Q", "R">>
    /\ EventExists(strip(req.event_id))
    /\ ~Blank(req.player)
    /\ resp.status = 400
    /\ \E i \in 1..Len(calc_totals) : calc_totals[i][2] > 0

\* C8: an accepted result for an (event, player) pair that had no result row
\* lowers no person's total.
C8_TotalsNeverDecrease ==
    [][ ( /\ req'.op = "submit_result"
          /\ resp'.status = 303
          /\ ~\E r \in results : /\ r.event_id = strip(req'.event_id)
                                 /\ r.player_name = strip(req'.player) )
        => LET before == calc_totals
               after  == TotalsQuery(predictions', events', results')
           IN  \A i \in 1..Len(before) :
                  \E j \in 1..Len(after) :
                      /\ after[j][1] = before[i][1]
                      /\ after[j][2] >= before[i][2] ]_vars

\* the first result ever recorded, accepted after a pick, and a total above 0
C8_Witness ==
    /\ Accepted("submit_result")
    /\ writes = 2
    /\ Cardinality(predictions) = 1
    /\ Cardinality(results) = 1
    /\ \E i \in 1..Len(calc_totals) : calc_totals[i][2] > 0

(***************************************************************************)
(* Properties of the breakdown, checked under SpecArchive.                 *)
(***************************************************************************)
\* the 1-based place of a league year event in the seeded catalog
DisplayOrder(event_id) ==
    CHOOSE idx \in 1..Len(EVENTS_ORDERED) :
        EventId(EVENTS_ORDERED[idx][1], LEAGUE_YEAR) = event_id

====
